---- MODULE Spec2Model ----
(***************************************************************************)
(* A model of the recommender code in src/CUR_all.py (Dataset, SVD, CUR)   *)
(* and src/main.py (ColabrativeFiltering, CollaborativeWithBaseline).      *)
(*                                                                         *)
(* Numbers.  The code computes in IEEE doubles.  The model computes in     *)
(* exact rationals and keeps the two special doubles the code can produce, *)
(* NaN (0/0) and inf (x/0), as values of their own: a Float is a record    *)
(* [t, n, d] with t in {"num", "nan", "inf"} and, for "num", the value     *)
(* n/d with d > 0.  A matrix is a sequence of rows; the indices the code   *)
(* stores (numpy's, 0-based) are stored 0-based, and position i of a       *)
(* sequence holds index i-1.                                               *)
(***************************************************************************)
EXTENDS Integers, Sequences, FiniteSets, TLC

VARIABLES
    ctor_matrix,     \* CUR.__init__'s argument `matrix`
    A,               \* CUR.A
    C,               \* CUR.C
    U,               \* CUR.U
    R,               \* CUR.R
    cur_approx,      \* CUR.cur_approx
    ret,             \* what the most recent call returned or raised
    last_done,       \* the most recent call that returned without raising
    svd_matrix,      \* SVD.matrix
    svd_ret,         \* what SVD.decompose90 returned
    arg_matrix,      \* the `matrix` argument of the collaborative filters
    matrix,          \* ColabrativeFiltering.matrix
    k,               \* ColabrativeFiltering.k
    top_k_users,     \* ColabrativeFiltering.top_k_users
    top_k_sim,       \* ColabrativeFiltering.top_k_sim
    bool_mat,        \* CollaborativeWithBaseline.bool_mat
    global_mean,     \* CollaborativeWithBaseline.global_mean
    user_deviation,  \* CollaborativeWithBaseline.user_deviation
    movie_deviation, \* CollaborativeWithBaseline.movie_deviation
    matrix_np,       \* Dataset.matrix_np
    predictionMatrix,\* the predictionMatrix argument of a metric
    top_k,           \* the k argument of precision_at_top_k
    metric           \* what the Dataset metric call returned

curVars == <<ctor_matrix, A, C, U, R, cur_approx, ret, last_done>>
svdVars == <<svd_matrix, svd_ret>>
cfVars  == <<arg_matrix, matrix, k, top_k_users, top_k_sim, bool_mat,
             global_mean, user_deviation, movie_deviation>>
dsVars  == <<matrix_np, predictionMatrix, top_k, metric>>
vars    == <<curVars, svdVars, cfVars, dsVars>>

(***************************************************************************)
(* Bounds of the model.                                                    *)
(***************************************************************************)
\* rows and columns of the matrix a CUR instance is built on
CurRows == 2
CurCols == 2
\* the r of a direct get_C_R_W(r) call ranges over 1 .. MaxR
MaxR == 3
\* singular values range over 0 .. MaxSigma
MaxSigma == 3
\* the entries of the matrix of a CUR instance whose calls are followed
CurRatings == {0, 1}
\* the entries of the matrix get_probabilities and SVD are applied to
Ratings == {0, 1, 2}
\* rows and columns of the square matrices SVD.decompose90 is applied to
SvdDim == 3
\* users and items of the matrix the collaborative filters are built on
CfUsers == 3
CfItems == 2
\* users and items of the matrices the Dataset metrics are applied to
DsUsers == 2
DsItems == 2
\* the true and the predicted ratings of those matrices
DsRatings == {0, 3, 4}
\* rows and columns of the matrix CUR.decompose90 is followed on
Cur90Rows == 3
Cur90Cols == 3

(***************************************************************************)
(* Python's None and the doubles.                                          *)
(***************************************************************************)
None == [op |-> "None"]

RECURSIVE GCD(_, _)
GCD(a, b) == IF b = 0 THEN a ELSE GCD(b, a % b)
Abs(n) == IF n < 0 THEN -n ELSE n

\* the double n/d (d > 0), in lowest terms
Num(n, d) ==
    LET g == GCD(Abs(n), d)
    IN  [t |-> "num", n |-> n \div g, d |-> d \div g]
NaN == [t |-> "nan", n |-> 0, d |-> 1]
PosInf == [t |-> "inf", n |-> 1, d |-> 1]

IsNaN(x) == x.t = "nan"
IsFinite(x) == x.t = "num"
IsZero(x) == x.t = "num" /\ x.n = 0
IsPositive(x) == x.t = "inf" \/ (x.t = "num" /\ x.n > 0)

\* the double n/d of two integers n >= 0 and d >= 0: 0/0 is nan, n/0 is inf
\* (numpy warns and goes on)
TrueDivide(n, d) ==
    IF d = 0 THEN (IF n = 0 THEN NaN ELSE PosInf) ELSE Num(n, d)

\* equality of two doubles: nan equals nothing
FloatEq(x, y) ==
    /\ ~IsNaN(x) /\ ~IsNaN(y)
    /\ \/ x.t = "inf" /\ y.t = "inf"
       \/ x.t = "num" /\ y.t = "num" /\ x.n * y.d = y.n * x.d

\* the integer r times the double p
Times(r, p) == IF p.t = "num" THEN Num(r * p.n, p.d) ELSE p

\* the product of two doubles that are >= 0 or nan
Mul(x, y) ==
    IF IsNaN(x) \/ IsNaN(y) THEN NaN
    ELSE IF x.t = "inf" \/ y.t = "inf"
         THEN (IF IsZero(x) \/ IsZero(y) THEN NaN ELSE PosInf)
         ELSE Num(x.n * y.n, x.d * y.d)

\* an array with its entries computed, once
Array(f) == f \o <<>>

RECURSIVE Sum(_)
Sum(s) == IF s = <<>> THEN 0 ELSE Head(s) + Sum(Tail(s))

\* the sum of finite doubles
RECURSIVE FloatSum(_)
FloatSum(s) ==
    IF s = <<>> THEN Num(0, 1)
    ELSE LET x == Head(s)
             y == FloatSum(Tail(s))
         IN  IF x.t = "num" /\ y.t = "num"
             THEN Num(x.n * y.d + y.n * x.d, x.d * y.d)
             ELSE NaN

\* x - y and x * y, of finite doubles or nan
Sub(x, y) ==
    IF x.t = "num" /\ y.t = "num" THEN Num(x.n * y.d - y.n * x.d, x.d * y.d) ELSE NaN
Prod(x, y) ==
    IF x.t = "num" /\ y.t = "num" THEN Num(x.n * y.n, x.d * y.d) ELSE NaN

\* x / y, of finite doubles with y > 0
Quot(x, y) ==
    LET gn == GCD(Abs(x.n), y.n)
        gd == GCD(x.d, y.d)
    IN  Num((x.n \div gn) * (y.d \div gd), (x.d \div gd) * (y.n \div gn))

\* a/b <= c/d for b > 0 and d > 0, by the integer parts and then the
\* remainders (no product of the four is formed)
RECURSIVE RatLE(_, _, _, _)
RatLE(a, b, c, d) ==
    IF a \div b # c \div d THEN a \div b < c \div d
    ELSE IF a % b = 0 THEN TRUE
    ELSE IF c % d = 0 THEN FALSE
    ELSE RatLE(d, c % d, b, a % b)

\* x <= y in numpy's sorting order, which puts nan last
SortsBefore(x, y) == IsNaN(y) \/ (~IsNaN(x) /\ RatLE(x.n, x.d, y.n, y.d))

NumRows(M) == Len(M)
NumCols(M) == Len(M[1])
Matrices(nr, nc, V) == [1 .. nr -> [1 .. nc -> V]]
IsZeroMatrix(M) == \A i \in 1 .. NumRows(M) : \A j \in 1 .. NumCols(M) : M[i][j] = 0

(***************************************************************************)
(* CUR.get_probabilities                                                   *)
(***************************************************************************)
\* a slip of the axis: the sums of squares down the columns, one per row index
RowSquareSumsAxis0(M) ==
    Array([i \in 1 .. NumRows(M) |->
        Sum([j \in 1 .. NumRows(M) |->
                IF i <= NumCols(M) THEN M[j][i] * M[j][i] ELSE 0])])

\* np.sum(A**2, axis=1)
RowSquareSums(M) ==
    Array([i \in 1 .. NumRows(M) |-> Sum([j \in 1 .. NumCols(M) |-> M[i][j] * M[i][j]])])

\* np.sum(A**2, axis=0)
ColSquareSums(M) ==
    Array([j \in 1 .. NumCols(M) |-> Sum([i \in 1 .. NumRows(M) |-> M[i][j] * M[i][j]])])

\* row_prob = row_prob / np.sum(row_prob); col_prob likewise
Normalize(sums) ==
    LET total == Sum(sums)
    IN  Array([i \in 1 .. Len(sums) |-> TrueDivide(sums[i], total)])

get_probabilities(M) ==
    [row_prob |-> Normalize(RowSquareSums(M)),
     col_prob |-> Normalize(ColSquareSums(M))]

HasNaN(p) == \E i \in 1 .. Len(p) : IsNaN(p[i])

(***************************************************************************)
(* np.random.choice(n, r, replace=False, p=p), as get_C_R_W calls it.      *)
(* It raises ValueError when p holds a nan, when r exceeds n, and when     *)
(* fewer than r entries of p are nonzero; otherwise it returns r distinct  *)
(* indices in any order, none of probability 0.                            *)
(***************************************************************************)
ChoiceRaises(n, r, p) ==
    \/ HasNaN(p)
    \/ r > n
    \/ Cardinality({i \in 1 .. n : IsPositive(p[i])}) < r

\* a slip of the flag: replace=True, which may draw an index twice
ChoiceResultsWithReplacement(n, r, p) ==
    {s \in [1 .. r -> 0 .. n - 1] : \A i \in 1 .. r : IsPositive(p[s[i] + 1])}

ChoiceResults(n, r, p) ==
    {s \in [1 .. r -> 0 .. n - 1] :
        /\ \A i, j \in 1 .. r : i # j => s[i] # s[j]
        /\ \A i \in 1 .. r : IsPositive(p[s[i] + 1])}

(***************************************************************************)
(* CUR.get_C_R_W.  An entry of C, R or W is the entry v of A divided by    *)
(* the square root of by2, kept as the pair: by2 is r * prob for C and R   *)
(* and the product of the two for W.                                       *)
(***************************************************************************)
Scaled(v, by2) == [v |-> v, by2 |-> by2]

\* C = A[:, col_indices] / np.sqrt(r * col_prob[col_indices])
ScaledColumns(M, r, col_indices, col_prob) ==
    Array([i \in 1 .. NumRows(M) |->
        Array([c \in 1 .. r |->
            Scaled(M[i][col_indices[c] + 1], Times(r, col_prob[col_indices[c] + 1]))])])

\* R = A[row_indices, :] / np.sqrt(r * row_prob[row_indices]).reshape(-1, 1)
ScaledRows(M, r, row_indices, row_prob) ==
    Array([c \in 1 .. r |->
        Array([j \in 1 .. NumCols(M) |->
            Scaled(M[row_indices[c] + 1][j], Times(r, row_prob[row_indices[c] + 1]))])])

\* W = A[row_indices, :][:, col_indices] / scale
ScaledIntersection(M, r, row_indices, col_indices, probs) ==
    Array([a \in 1 .. r |->
        Array([b \in 1 .. r |->
            Scaled(M[row_indices[a] + 1][col_indices[b] + 1],
                   Mul(Times(r, probs.row_prob[row_indices[a] + 1]),
                       Times(r, probs.col_prob[col_indices[b] + 1])))])])

\* get_C_R_W raises, in the first or the second np.random.choice
CRWRaises(M, r) ==
    LET probs == get_probabilities(M)
    IN  \/ ChoiceRaises(NumRows(M), r, probs.row_prob)
        \/ ChoiceRaises(NumCols(M), r, probs.col_prob)

\* the samples get_C_R_W may draw
CRWSamples(M, r) ==
    LET probs == get_probabilities(M)
    IN  ChoiceResults(NumRows(M), r, probs.row_prob)
            \X ChoiceResults(NumCols(M), r, probs.col_prob)

\* what get_C_R_W computes from the sample <<row_indices, col_indices>>
get_C_R_W(M, r, sample) ==
    LET probs == get_probabilities(M)
    IN  [C |-> ScaledColumns(M, r, sample[2], probs.col_prob),
         R |-> ScaledRows(M, r, sample[1], probs.row_prob),
         W |-> ScaledIntersection(M, r, sample[1], sample[2], probs),
         r |-> r,
         row_indices |-> sample[1],
         col_indices |-> sample[2],
         row_prob |-> probs.row_prob,
         col_prob |-> probs.col_prob]

(***************************************************************************)
(* np.linalg.svd(matrix, full_matrices=False), by its contract: the        *)
(* singular values are min(rows, columns) numbers >= 0 in descending       *)
(* order, as many of them nonzero as the rank of the matrix.  U and V_T    *)
(* are kept as the labels 0 .. n-1 of U's columns and V_T's rows.          *)
(***************************************************************************)
Min(a, b) == IF a <= b THEN a ELSE b

\* the matrix without row 1 and column j
Minor(M, j) ==
    Array([a \in 1 .. Len(M) - 1 |->
        Array([b \in 1 .. Len(M) - 1 |-> M[a + 1][IF b < j THEN b ELSE b + 1]])])

RECURSIVE Det(_)
Det(M) ==
    IF Len(M) = 1 THEN M[1][1]
    ELSE Sum([j \in 1 .. Len(M) |->
                (IF j % 2 = 1 THEN 1 ELSE -1) * M[1][j] * Det(Minor(M, j))])

\* the elements of a set of integers in ascending order
RECURSIVE Ascending(_)
Ascending(S) ==
    IF S = {} THEN <<>>
    ELSE LET m == CHOOSE x \in S : \A y \in S : x <= y
         IN  <<m>> \o Ascending(S \ {m})

SubMatrix(M, rows, cols) ==
    LET rs == Ascending(rows)
        cs == Ascending(cols)
    IN  Array([a \in 1 .. Len(rs) |-> Array([b \in 1 .. Len(cs) |-> M[rs[a]][cs[b]]])])

Rank(M) ==
    LET sizes == {s \in 1 .. Min(NumRows(M), NumCols(M)) :
                    \E rows \in SUBSET (1 .. NumRows(M)) :
                    \E cols \in SUBSET (1 .. NumCols(M)) :
                        /\ Cardinality(rows) = s
                        /\ Cardinality(cols) = s
                        /\ Det(SubMatrix(M, rows, cols)) # 0}
    IN  IF sizes = {} THEN 0 ELSE CHOOSE s \in sizes : \A t \in sizes : t <= s

LinalgSvd(M) ==
    LET n == Min(NumRows(M), NumCols(M))
        rank == Rank(M)
    IN  {s \in [1 .. n -> 0 .. MaxSigma] :
            /\ \A i \in 1 .. n - 1 : s[i] >= s[i + 1]
            /\ \A i \in 1 .. n : (s[i] > 0) <=> (i <= rank)}

(***************************************************************************)
(* SVD.decompose90                                                         *)
(***************************************************************************)
\* the threshold 0.9 of line 147, as the fraction EnergyNum / EnergyDen
EnergyNum == 9
EnergyDen == 10

\* middle_diagonal.argsort(): the indices in an ascending order of the
\* values; numpy's default sort is not stable, so equal values come in any
\* order
Argsorts(s) ==
    {p \in [1 .. Len(s) -> 0 .. Len(s) - 1] :
        /\ \A i, j \in 1 .. Len(s) : i # j => p[i] # p[j]
        /\ \A i \in 1 .. Len(s) - 1 : s[p[i] + 1] <= s[p[i + 1] + 1]}

\* [::-1]
Reversed(p) == Array([i \in 1 .. Len(p) |-> p[Len(p) + 1 - i]])

\* a slip of the comparison: > for >=
ReachesEnergyStrict(sum, total_sum) ==
    total_sum # 0 /\ EnergyDen * sum > EnergyNum * total_sum

\* (sum/total_sum) >= 0.9; 0/0 is nan, and nan >= 0.9 is False
ReachesEnergy(sum, total_sum) ==
    total_sum # 0 /\ EnergyDen * sum >= EnergyNum * total_sum

\* the loop of lines 144-148, entered with `taken` indices visited and their
\* squares summed in `sum`; its value is `taken` when the loop ends
RECURSIVE TakenLoop(_, _, _, _, _)
TakenLoop(middle_diagonal, sorted_indices, total_sum, taken, sum) ==
    IF taken = Len(sorted_indices) THEN taken
    ELSE LET i == sorted_indices[taken + 1]
             s == sum + middle_diagonal[i + 1] * middle_diagonal[i + 1]
         IN  IF ReachesEnergy(s, total_sum) THEN taken + 1
             ELSE TakenLoop(middle_diagonal, sorted_indices, total_sum, taken + 1, s)

\* decompose90 on the singular values sigma, with `order` what argsort gave
decompose90(sigma, order) ==
    LET sorted_indices == Reversed(order)
        total_sum == Sum([i \in 1 .. Len(sigma) |-> sigma[i] * sigma[i]])
        taken == TakenLoop(sigma, sorted_indices, total_sum, 0, 0)
        indices_to_take == SubSeq(sorted_indices, 1, taken)
    IN  [U |-> indices_to_take,
         sigma |-> Array([i \in 1 .. taken |-> sigma[indices_to_take[i] + 1]]),
         V_T |-> indices_to_take,
         taken |-> taken,
         full_sigma |-> sigma]

(***************************************************************************)
(* CUR.decompose and CUR.decompose90                                       *)
(***************************************************************************)
\* the r of lines 224 and 238 (3000 there), scaled to the model's matrices
SampleSize == 2

\* the integer entries of A under the scaled entries of W
Unscaled(W) ==
    Array([a \in 1 .. Len(W) |-> Array([b \in 1 .. Len(W[a]) |-> W[a][b].v])])

\* np.linalg.pinv(W), kept as the term
pinv(W) == [op |-> "pinv", W |-> W]

\* np.reciprocal(sigma), then diag and the product with itself: 1/sigma^2 on
\* the diagonal, and 1/0 is inf (numpy warns and goes on)
ReciprocalSquared(sigma) ==
    Array([i \in 1 .. Len(sigma) |-> TrueDivide(1, sigma[i] * sigma[i])])

\* Y_T.T @ sigma_r @ X.T, kept as the term
Core90(svd, W) ==
    [op |-> "Y_T.T @ sigma_r @ X.T", Y_T |-> svd.V_T,
     sigma_r |-> ReciprocalSquared(svd.sigma), X |-> svd.U, W |-> W]

\* C @ U @ R, kept as the term
Matmul3(c, u, r) == [op |-> "C @ U @ R", C |-> c, U |-> u, R |-> r]

\* an entry of the core is inf or nan
CoreNonFinite(u) ==
    u.op = "Y_T.T @ sigma_r @ X.T" /\ \E i \in 1 .. Len(u.sigma_r) : ~IsFinite(u.sigma_r[i])

(***************************************************************************)
(* The operations of a CUR instance.                                       *)
(***************************************************************************)
Raised(op, r) == [op |-> op, raised |-> TRUE, r |-> r]

\* a call raised before it stored anything: the instance is as it was
RaiseValueError(op, r) ==
    /\ ret' = Raised(op, r)
    /\ UNCHANGED <<ctor_matrix, A, C, U, R, cur_approx, last_done>>

\* cur.get_probabilities()
GetProbabilities ==
    /\ ret' = [op |-> "get_probabilities", raised |-> FALSE,
               value |-> get_probabilities(A)]
    /\ last_done' = "get_probabilities"
    /\ UNCHANGED <<ctor_matrix, A, C, U, R, cur_approx>>
    /\ UNCHANGED <<svdVars, cfVars, dsVars>>

\* cur.get_C_R_W(r)
GetCRW ==
    /\ \E r \in 1 .. MaxR :
        IF CRWRaises(A, r)
        THEN RaiseValueError("get_C_R_W", r)
        ELSE \E sample \in CRWSamples(A, r) :
                LET crw == get_C_R_W(A, r, sample)
                IN  /\ C' = crw.C
                    /\ R' = crw.R
                    /\ ret' = [op |-> "get_C_R_W", raised |-> FALSE, r |-> r,
                               value |-> crw]
                    /\ last_done' = "get_C_R_W"
                    /\ UNCHANGED <<ctor_matrix, A, U, cur_approx>>
    /\ UNCHANGED <<svdVars, cfVars, dsVars>>

\* a slip of the product: the core multiplied in is the pseudo-inverse of R,
\* while self.U keeps the pseudo-inverse of W
DecomposeStoresOtherCore(crw) ==
    [C |-> crw.C, R |-> crw.R, U |-> pinv(crw.W),
     cur_approx |-> Matmul3(crw.C, pinv(crw.R), crw.R)]

\* what decompose stores, given what get_C_R_W returned
DecomposeStores(crw) ==
    LET u == pinv(crw.W)
    IN  [C |-> crw.C, R |-> crw.R, U |-> u, cur_approx |-> Matmul3(crw.C, u, crw.R)]

\* cur.decompose()
Decompose ==
    /\ IF CRWRaises(A, SampleSize)
       THEN RaiseValueError("decompose", SampleSize)
       ELSE \E sample \in CRWSamples(A, SampleSize) :
                LET crw == get_C_R_W(A, SampleSize, sample)
                    st == DecomposeStores(crw)
                IN  /\ C' = st.C
                    /\ R' = st.R
                    /\ U' = st.U
                    /\ cur_approx' = st.cur_approx
                    /\ ret' = [op |-> "decompose", raised |-> FALSE, r |-> SampleSize,
                               value |-> st.cur_approx, crw |-> crw]
                    /\ last_done' = "decompose"
                    /\ UNCHANGED <<ctor_matrix, A>>
    /\ UNCHANGED <<svdVars, cfVars, dsVars>>

\* what decompose90 stores, given what get_C_R_W and SVD(W).decompose90 returned
Decompose90Stores(crw, svd) ==
    LET u == Core90(svd, crw.W)
    IN  [C |-> crw.C, R |-> crw.R, U |-> u, cur_approx |-> Matmul3(crw.C, u, crw.R)]

\* cur.decompose90()
Decompose90 ==
    /\ IF CRWRaises(A, SampleSize)
       THEN RaiseValueError("decompose90", SampleSize)
       ELSE \E sample \in CRWSamples(A, SampleSize) :
                LET crw == get_C_R_W(A, SampleSize, sample)
                IN  \E sigma \in LinalgSvd(Unscaled(crw.W)) :
                    \E order \in Argsorts(sigma) :
                        LET svd == decompose90(sigma, order)
                            st == Decompose90Stores(crw, svd)
                        IN  /\ C' = st.C
                            /\ R' = st.R
                            /\ U' = st.U
                            /\ cur_approx' = st.cur_approx
                            /\ ret' = [op |-> "decompose90", raised |-> FALSE,
                                       r |-> SampleSize, value |-> st.cur_approx,
                                       crw |-> crw, svd |-> svd]
                            /\ last_done' = "decompose90"
                            /\ UNCHANGED <<ctor_matrix, A>>
    /\ UNCHANGED <<svdVars, cfVars, dsVars>>

(***************************************************************************)
(* The variables of the classes a specification does not exercise.         *)
(***************************************************************************)
CurIdle ==
    /\ ctor_matrix = <<>> /\ A = <<>> /\ C = None /\ U = None /\ R = None
    /\ cur_approx = None /\ ret = None /\ last_done = "none"
SvdIdle == svd_matrix = <<>> /\ svd_ret = None
CfIdle ==
    /\ arg_matrix = <<>> /\ matrix = <<>> /\ k = 0 /\ top_k_users = None
    /\ top_k_sim = None /\ bool_mat = None /\ global_mean = None
    /\ user_deviation = None /\ movie_deviation = None
DsIdle == matrix_np = <<>> /\ predictionMatrix = <<>> /\ top_k = 0 /\ metric = None

\* cur = CUR(matrix)
CurConstructed(M) ==
    /\ ctor_matrix = M /\ A = M /\ C = None /\ U = None /\ R = None
    /\ cur_approx = None /\ ret = None /\ last_done = "none"

(***************************************************************************)
(* SpecCUR: one CUR instance on any CurRows x CurCols matrix of ratings,   *)
(* and any sequence of calls on it.                                        *)
(***************************************************************************)
InitCUR ==
    /\ \E M \in Matrices(CurRows, CurCols, CurRatings) : CurConstructed(M)
    /\ SvdIdle /\ CfIdle /\ DsIdle

NextCUR == GetCRW \/ Decompose \/ Decompose90

SpecCUR == InitCUR /\ [][NextCUR]_vars

(***************************************************************************)
(* SpecProb: CUR.get_probabilities on any CurRows x CurCols matrix.        *)
(***************************************************************************)
InitProb ==
    /\ \E M \in Matrices(CurRows, CurCols, Ratings) : CurConstructed(M)
    /\ SvdIdle /\ CfIdle /\ DsIdle

NextProb == GetProbabilities

SpecProb == InitProb /\ [][NextProb]_vars

(***************************************************************************)
(* SpecCUR90: CUR.decompose90 on any Cur90Rows x Cur90Cols matrix.         *)
(***************************************************************************)
InitCUR90 ==
    /\ \E M \in Matrices(Cur90Rows, Cur90Cols, CurRatings) : CurConstructed(M)
    /\ SvdIdle /\ CfIdle /\ DsIdle

\* no call has been made on the instance yet
Fresh == ret = None

NextCUR90 == Fresh /\ Decompose90

SpecCUR90 == InitCUR90 /\ [][NextCUR90]_vars

(***************************************************************************)
(* SpecSVD: SVD(matrix).decompose90() on the diagonal SvdDim x SvdDim      *)
(* matrices with entries in 0 .. MaxSigma (every rank from 0 to SvdDim).   *)
(***************************************************************************)
\* svd = SVD(matrix); svd.decompose90()
SVDDecompose90 ==
    /\ \E sigma \in LinalgSvd(svd_matrix) :
       \E order \in Argsorts(sigma) :
            svd_ret' = decompose90(sigma, order)
    /\ UNCHANGED <<svd_matrix, curVars, cfVars, dsVars>>

DiagonalMatrices(n, V) ==
    {Array([i \in 1 .. n |-> Array([j \in 1 .. n |-> IF i = j THEN d[i] ELSE 0])]) :
        d \in [1 .. n -> V]}

InitSVD ==
    /\ svd_matrix \in DiagonalMatrices(SvdDim, 0 .. MaxSigma)
    /\ svd_ret = None
    /\ CurIdle /\ CfIdle /\ DsIdle

\* decompose90 reads self.matrix alone and writes no field: a second call on
\* the same SVD is a first call again, so one call per instance is followed
SvdFresh == svd_ret = None

NextSVD == SvdFresh /\ SVDDecompose90

SpecSVD == InitSVD /\ [][NextSVD]_vars

(***************************************************************************)
(* ColabrativeFiltering.get_top_k_users.  A similarity c (a cosine) is     *)
(* kept as c * |c|, its square with its sign: a rational, and an           *)
(* increasing function of c, so that sorting it is sorting c.              *)
(***************************************************************************)
\* an integer matrix as doubles
AsDoubles(M) ==
    Array([i \in 1 .. NumRows(M) |-> Array([j \in 1 .. NumCols(M) |-> Num(M[i][j], 1)])])

Dot(u, v) == FloatSum([j \in 1 .. Len(u) |-> Prod(u[j], v[j])])

\* np.matmul(matrix, matrix.T) / np.matmul(row_sums, row_sums.T), one entry:
\* the dot product over the product of the norms, nan when a norm is 0
Cosine(u, v) ==
    LET uv == Dot(u, v)
        uu == Dot(u, u)
        vv == Dot(v, v)
    IN  IF uv.t # "num" \/ uu.t # "num" \/ vv.t # "num" THEN NaN
        ELSE IF uu.n = 0 \/ vv.n = 0 THEN NaN
        ELSE Quot(Prod(uv, Num(Abs(uv.n), uv.d)), Prod(uu, vv))

SimilarityMatrix(M) ==
    Array([u \in 1 .. NumRows(M) |-> Array([v \in 1 .. NumRows(M) |-> Cosine(M[u], M[v])])])

\* np.argsort of one row: ascending, nan last, equal values in any order
FloatArgsorts(row) ==
    {p \in [1 .. Len(row) -> 0 .. Len(row) - 1] :
        /\ \A i, j \in 1 .. Len(row) : i # j => p[i] # p[j]
        /\ \A i \in 1 .. Len(row) - 1 : SortsBefore(row[p[i] + 1], row[p[i + 1] + 1])}

\* [:, -(k + 1):-1] of one sorted row
TopSlice(p, kk) ==
    SubSeq(p, (IF Len(p) - (kk + 1) < 0 THEN 0 ELSE Len(p) - (kk + 1)) + 1, Len(p) - 1)

\* get_top_k_users, with `orders` what np.argsort gave for each row
get_top_k_users(M, kk, orders) ==
    LET sim_mat == SimilarityMatrix(M)
        users == Array([u \in 1 .. NumRows(M) |-> TopSlice(orders[u], kk)])
    IN  [top_k_users |-> users,
         top_k_sim |-> Array([u \in 1 .. NumRows(M) |->
                            Array([i \in 1 .. Len(users[u]) |-> sim_mat[u][users[u][i] + 1]])])]

\* np.argsort(sim_mat, axis=1): an argsort of each of the first n rows
RECURSIVE ArgsortsOfRows(_, _)
ArgsortsOfRows(sim_mat, n) ==
    IF n = 0 THEN {<<>>}
    ELSE {Append(orders, p) :
            orders \in ArgsortsOfRows(sim_mat, n - 1), p \in FloatArgsorts(sim_mat[n])}

ArgsortRows(M) == ArgsortsOfRows(SimilarityMatrix(M), NumRows(M))

\* cf = ColabrativeFiltering(matrix, train, test, k), up to get_top_k_users;
\* get_results, which predicts the ratings of the train and test tables, is
\* not followed
ConstructCF ==
    /\ matrix = <<>>
    /\ matrix' = AsDoubles(arg_matrix)
    /\ \E orders \in ArgsortRows(AsDoubles(arg_matrix)) :
        LET top == get_top_k_users(AsDoubles(arg_matrix), k, orders)
        IN  /\ top_k_users' = top.top_k_users
            /\ top_k_sim' = top.top_k_sim
    /\ UNCHANGED <<arg_matrix, k, bool_mat, global_mean, user_deviation, movie_deviation>>
    /\ UNCHANGED <<curVars, svdVars, dsVars>>

(***************************************************************************)
(* SpecCF: ColabrativeFiltering on any CfUsers x CfItems matrix of         *)
(* ratings, with any k below the number of users.                          *)
(***************************************************************************)
InitCF ==
    /\ arg_matrix \in Matrices(CfUsers, CfItems, Ratings)
    /\ k \in 1 .. CfUsers - 1
    /\ matrix = <<>> /\ top_k_users = None /\ top_k_sim = None
    /\ bool_mat = None /\ global_mean = None /\ user_deviation = None
    /\ movie_deviation = None
    /\ CurIdle /\ SvdIdle /\ DsIdle

NextCF == ConstructCF

SpecCF == InitCF /\ [][NextCF]_vars

(***************************************************************************)
(* CollaborativeWithBaseline.__init__                                      *)
(***************************************************************************)
\* np.where(matrix == 0, False, True)
BoolMat(M) ==
    Array([i \in 1 .. NumRows(M) |-> Array([j \in 1 .. NumCols(M) |-> M[i][j] # 0])])

\* np.mean(values, where=mask) along a row, a column or the matrix: the sum
\* of the selected integers over their number, nan (with a warning) when
\* none is selected
MeanWhere(values, mask) ==
    TrueDivide(Sum([i \in 1 .. Len(values) |-> IF mask[i] THEN values[i] ELSE 0]),
               Sum([i \in 1 .. Len(values) |-> IF mask[i] THEN 1 ELSE 0]))

Flat(M) ==
    [x \in 1 .. NumRows(M) * NumCols(M) |->
        M[((x - 1) \div NumCols(M)) + 1][((x - 1) % NumCols(M)) + 1]]
Column(M, j) == [i \in 1 .. NumRows(M) |-> M[i][j]]

\* find_global_mean
GlobalMean(M, mask) == MeanWhere(Flat(M), Flat(mask))

\* find_user_deviation
UserDeviation(M, mask, mean) ==
    Array([i \in 1 .. NumRows(M) |-> Sub(MeanWhere(M[i], mask[i]), mean)])

\* np.nan_to_num
NanToNum(x) == IF IsNaN(x) THEN Num(0, 1) ELSE x

\* find_movie_deviation
MovieDeviation(M, mask, mean) ==
    Array([j \in 1 .. NumCols(M) |->
        NanToNum(Sub(MeanWhere(Column(M, j), Column(mask, j)), mean))])

\* what an entry that np.subtract(..., where=mask) leaves out can hold: the
\* call passes no `out`, so the entry is memory np.empty handed out, zero or
\* not
Uninitialized == {Num(0, 1), Num(3, 1)}

\* the two np.subtract calls of lines 64-67; `memory` holds what the second
\* leaves in the entries the mask leaves out
Residual(M, mask, mean, deviation, memory) ==
    Array([i \in 1 .. NumRows(M) |->
        Array([j \in 1 .. NumCols(M) |->
            IF mask[i][j] THEN Sub(Sub(Num(M[i][j], 1), mean), deviation[j])
            ELSE memory[i][j]])])

\* the residual matrices the constructor can end with
Residuals(M, mask, mean, deviation) ==
    {Residual(M, mask, mean, deviation, memory) :
        memory \in Matrices(NumRows(M), NumCols(M), Uninitialized)}

\* cfb = CollaborativeWithBaseline(matrix, train, test, k), up to
\* get_top_k_users; get_results is not followed
ConstructBaseline ==
    /\ matrix = <<>>
    /\ LET mask == BoolMat(arg_matrix)
           mean == GlobalMean(arg_matrix, mask)
           deviation == MovieDeviation(arg_matrix, mask, mean)
       IN  /\ bool_mat' = mask
           /\ global_mean' = mean
           /\ user_deviation' = UserDeviation(arg_matrix, mask, mean)
           /\ movie_deviation' = deviation
           /\ \E residual \in Residuals(arg_matrix, mask, mean, deviation) :
                /\ matrix' = residual
                /\ \E orders \in ArgsortRows(residual) :
                    LET top == get_top_k_users(residual, k, orders)
                    IN  /\ top_k_users' = top.top_k_users
                        /\ top_k_sim' = top.top_k_sim
    /\ UNCHANGED <<arg_matrix, k>>
    /\ UNCHANGED <<curVars, svdVars, dsVars>>

(***************************************************************************)
(* SpecBaseline: CollaborativeWithBaseline on any CfUsers x CfItems matrix *)
(* of ratings, with k = 1.                                                 *)
(***************************************************************************)
NextBaseline == ConstructBaseline

InitBaseline == InitCF /\ k = 1

SpecBaseline == InitBaseline /\ [][NextBaseline]_vars

(***************************************************************************)
(* Dataset.RMSE_training and Dataset.precision_at_top_k                    *)
(***************************************************************************)
\* ((matrix_np - P)**2).sum(where=matrix_np != 0) / np.count_nonzero(matrix_np):
\* the square of what RMSE_training returns; 0/0 is nan, and so is its root
MeanSquaredError(M, P) ==
    TrueDivide(
        Sum([x \in 1 .. NumRows(M) * NumCols(M) |->
                IF Flat(M)[x] # 0
                THEN (Flat(M)[x] - Flat(P)[x]) * (Flat(M)[x] - Flat(P)[x]) ELSE 0]),
        Sum([x \in 1 .. NumRows(M) * NumCols(M) |-> IF Flat(M)[x] # 0 THEN 1 ELSE 0]))

\* the cutoff of is_relevant
RelevantAbove == 3

\* a slip of the comparison: >= for >
is_relevant_or_equal(rating) == rating >= RelevantAbove

\* is_relevant
is_relevant(rating) == rating > RelevantAbove

\* local_correct of one row: the relevant predictions among the first kk of
\* sorted_indices
LocalCorrect(P_row, sorted_indices, kk) ==
    Sum([i \in 1 .. kk |-> IF is_relevant(P_row[sorted_indices[i] + 1]) THEN 1 ELSE 0])

\* precision_at_top_k, with `orders` what argsort gave for each row
precision_at_top_k(M, kk, P, orders) ==
    LET correct_preds ==
            FloatSum([u \in 1 .. NumRows(M) |->
                        TrueDivide(LocalCorrect(P[u], Reversed(orders[u]), kk), kk)])
    IN  Quot(correct_preds, Num(NumRows(M), 1))

\* matrix_np[row_index].argsort() of each of the first n rows
RECURSIVE RowArgsorts(_, _)
RowArgsorts(M, n) ==
    IF n = 0 THEN {<<>>}
    ELSE {Append(orders, p) : orders \in RowArgsorts(M, n - 1), p \in Argsorts(M[n])}

\* ds.RMSE_training(predictionMatrix)
RMSETraining ==
    /\ metric = None
    /\ metric' = [op |-> "RMSE_training",
                  squared |-> MeanSquaredError(matrix_np, predictionMatrix)]
    /\ UNCHANGED <<matrix_np, predictionMatrix, top_k>>
    /\ UNCHANGED <<curVars, svdVars, cfVars>>

\* ds.precision_at_top_k(k, predictionMatrix)
PrecisionAtTopK ==
    /\ metric = None
    /\ \E orders \in RowArgsorts(matrix_np, NumRows(matrix_np)) :
        metric' = [op |-> "precision_at_top_k",
                   value |-> precision_at_top_k(matrix_np, top_k, predictionMatrix, orders)]
    /\ UNCHANGED <<matrix_np, predictionMatrix, top_k>>
    /\ UNCHANGED <<curVars, svdVars, cfVars>>

(***************************************************************************)
(* SpecDataset: one metric call on any DsUsers x DsItems true matrix and   *)
(* prediction matrix, with any k up to the number of items.                *)
(***************************************************************************)
InitDataset ==
    /\ matrix_np \in Matrices(DsUsers, DsItems, DsRatings)
    /\ predictionMatrix \in Matrices(DsUsers, DsItems, DsRatings)
    /\ top_k \in 1 .. DsItems
    /\ metric = None
    /\ CurIdle /\ SvdIdle /\ CfIdle

NextDataset == RMSETraining \/ PrecisionAtTopK

SpecDataset == InitDataset /\ [][NextDataset]_vars

(***************************************************************************)
(* Claims about SVD and CUR.                                               *)
(***************************************************************************)
SquaresUpTo(s, m) == Sum([i \in 1 .. m |-> s[i] * s[i]])
Distinct(s) == \A i, j \in 1 .. Len(s) : i # j => s[i] # s[j]

\* C1: for a matrix with a nonzero singular value, SVD.decompose90 keeps the
\* n largest singular values in descending order, n >= 1 the least count
\* whose squares sum to at least 0.9 of the sum of all squares, and slices
\* U's columns and V_T's rows at the same n indices.
C1_Decompose90KeepsMinimalPrefix ==
    (svd_ret # None /\ \E i \in 1 .. Len(svd_ret.full_sigma) : svd_ret.full_sigma[i] > 0) =>
        LET full == svd_ret.full_sigma
            n == Len(svd_ret.sigma)
            total == SquaresUpTo(full, Len(full))
        IN  /\ n >= 1 /\ n <= Len(full)
            /\ svd_ret.sigma = SubSeq(full, 1, n)
            /\ 10 * SquaresUpTo(full, n) >= 9 * total
            /\ \A m \in 1 .. n - 1 : 10 * SquaresUpTo(full, m) < 9 * total
            /\ svd_ret.U = svd_ret.V_T
            /\ Len(svd_ret.U) = n
            /\ Distinct(svd_ret.U)
            /\ \A i \in 1 .. n :
                /\ svd_ret.U[i] \in 0 .. Len(full) - 1
                /\ full[svd_ret.U[i] + 1] = svd_ret.sigma[i]

\* C1's case: a truncation that keeps more than one singular value and drops
\* a nonzero one
C1_Witness ==
    /\ svd_ret # None
    /\ Len(svd_ret.sigma) = 2
    /\ Len(svd_ret.full_sigma) = 3
    /\ svd_ret.full_sigma[3] > 0

NonZeroRows(M) == {i \in 1 .. NumRows(M) : \E j \in 1 .. NumCols(M) : M[i][j] # 0}
NonZeroCols(M) == {j \in 1 .. NumCols(M) : \E i \in 1 .. NumRows(M) : M[i][j] # 0}
SquareSum(M) ==
    Sum([i \in 1 .. NumRows(M) |-> Sum([j \in 1 .. NumCols(M) |-> M[i][j] * M[i][j]])])
RowSquares(M, i) == Sum([j \in 1 .. NumCols(M) |-> M[i][j] * M[i][j]])
ColSquares(M, j) == Sum([i \in 1 .. NumRows(M) |-> M[i][j] * M[i][j]])

\* what C2 says of the factors a successful get_C_R_W(r) returns
GoodFactors(v, r) ==
    LET T == SquareSum(A)
        rows == v.row_indices
        cols == v.col_indices
    IN  /\ Len(rows) = r /\ Len(cols) = r
        /\ Distinct(rows) /\ Distinct(cols)
        /\ \A c \in 1 .. r : rows[c] \in 0 .. NumRows(A) - 1 /\ cols[c] \in 0 .. NumCols(A) - 1
        /\ \A c \in 1 .. r : RowSquares(A, rows[c] + 1) > 0 /\ ColSquares(A, cols[c] + 1) > 0
        /\ Len(v.C) = NumRows(A) /\ \A i \in 1 .. NumRows(A) : Len(v.C[i]) = r
        /\ Len(v.R) = r /\ \A c \in 1 .. r : Len(v.R[c]) = NumCols(A)
        /\ Len(v.W) = r /\ \A c \in 1 .. r : Len(v.W[c]) = r
        /\ \A i \in 1 .. NumRows(A) : \A c \in 1 .. r :
            /\ v.C[i][c].v = A[i][cols[c] + 1]
            /\ FloatEq(v.C[i][c].by2, Num(r * ColSquares(A, cols[c] + 1), T))
            /\ v.C[i][c].by2.n > 0
        /\ \A c \in 1 .. r : \A j \in 1 .. NumCols(A) :
            /\ v.R[c][j].v = A[rows[c] + 1][j]
            /\ FloatEq(v.R[c][j].by2, Num(r * RowSquares(A, rows[c] + 1), T))
            /\ v.R[c][j].by2.n > 0
        /\ \A a \in 1 .. r : \A b \in 1 .. r :
            /\ v.W[a][b].v = A[rows[a] + 1][cols[b] + 1]
            /\ FloatEq(v.W[a][b].by2,
                       Num(r * RowSquares(A, rows[a] + 1) * r * ColSquares(A, cols[b] + 1),
                           T * T))
        /\ C = v.C /\ R = v.R

\* C2, as claimed: on a nonzero U x M matrix, get_C_R_W(r) succeeds for every
\* r in 1 .. min(U, M), and returns factors of r distinct rows and r distinct
\* columns, each of positive probability.
C2_Original ==
    (/\ ret # None /\ ret.op = "get_C_R_W" /\ ~IsZeroMatrix(A)
     /\ ret.r <= Min(NumRows(A), NumCols(A))) =>
        (~ret.raised /\ GoodFactors(ret.value, ret.r))

\* C2, amended: on a nonzero matrix, get_C_R_W(r) succeeds exactly when r is
\* at most the number of nonzero rows and at most the number of nonzero
\* columns, and then returns factors of r distinct rows and r distinct
\* columns, each of positive probability; otherwise it raises.
C2_SucceedsUpToNonZeroCount ==
    (ret # None /\ ret.op = "get_C_R_W" /\ ~IsZeroMatrix(A)) =>
        /\ ret.raised <=>
            (ret.r > Min(Cardinality(NonZeroRows(A)), Cardinality(NonZeroCols(A))))
        /\ ~ret.raised => GoodFactors(ret.value, ret.r)

\* C2's case: a successful draw of two rows and two columns
C2_Witness ==
    /\ ret # None /\ ret.op = "get_C_R_W" /\ ~ret.raised /\ ret.r = 2
    /\ \E i \in 1 .. NumRows(A) : \E j \in 1 .. NumCols(A) : A[i][j] = 0

\* C3: on the zero matrix, computing the sampling probabilities ends in an
\* error; no probability vector with a nan in it is returned.
C3_ZeroMatrixRaises ==
    (ret # None /\ IsZeroMatrix(A)) =>
        /\ ret.raised
        /\ ret.op = "get_probabilities" =>
            (~HasNaN(ret.value.row_prob) /\ ~HasNaN(ret.value.col_prob))

\* C4: CUR.decompose90 never takes the reciprocal of a zero singular value
\* of W: no inf or nan enters the core.
C4_NoReciprocalOfZero ==
    (ret # None /\ ret.op = "decompose90" /\ ~ret.raised) =>
        /\ \A i \in 1 .. Len(ret.svd.sigma) : ret.svd.sigma[i] # 0
        /\ ~CoreNonFinite(U)

GoodProbabilities(p, squares, T) ==
    /\ FloatEq(FloatSum(p), Num(1, 1))
    /\ \A i \in 1 .. Len(p) :
        /\ FloatEq(p[i], Num(squares[i], T))
        /\ p[i].t = "num" /\ 0 <= p[i].n /\ p[i].n <= p[i].d
        /\ IsZero(p[i]) <=> squares[i] = 0

\* C9: on a nonzero matrix, get_probabilities returns row_prob and col_prob
\* that each sum to 1, entry i the squares of row (column) i over the squares
\* of A, every entry in [0, 1], and 0 exactly for an all-zero row (column).
C9_ProbabilitiesSumToOne ==
    (ret # None /\ ret.op = "get_probabilities" /\ ~IsZeroMatrix(A)) =>
        /\ ~ret.raised
        /\ Len(ret.value.row_prob) = NumRows(A)
        /\ Len(ret.value.col_prob) = NumCols(A)
        /\ GoodProbabilities(ret.value.row_prob,
                             [i \in 1 .. NumRows(A) |-> RowSquares(A, i)], SquareSum(A))
        /\ GoodProbabilities(ret.value.col_prob,
                             [j \in 1 .. NumCols(A) |-> ColSquares(A, j)], SquareSum(A))

\* C9's case: probabilities of a matrix with an all-zero row and rows of
\* different weight
C9_Witness ==
    /\ ret # None /\ ret.op = "get_probabilities"
    /\ A[1][1] = 2 /\ A[1][2] = 1 /\ A[2][1] = 0 /\ A[2][2] = 0

\* C10, as claimed: A never changes, and a stored cur_approx is C @ U @ R of
\* the stored C, U and R.
C10_Original ==
    /\ A = ctor_matrix
    /\ cur_approx # None => cur_approx = Matmul3(C, U, R)

\* C10, amended: A never changes; a stored cur_approx was computed with the
\* stored U; and it is C @ U @ R of the stored C, U and R whenever the most
\* recent call that returned was decompose or decompose90 (a direct
\* get_C_R_W call overwrites C and R and leaves U and cur_approx).
C10_ConsistentAfterDecompose ==
    /\ A = ctor_matrix
    /\ cur_approx # None =>
        /\ cur_approx.U = U
        /\ last_done \in {"decompose", "decompose90"} => cur_approx = Matmul3(C, U, R)
        /\ last_done = "get_C_R_W" => (ret.raised \/ (C = ret.value.C /\ R = ret.value.R))

\* C10's case: a decomposition followed by a direct get_C_R_W call that drew
\* other columns
C10_Witness ==
    /\ cur_approx # None
    /\ last_done = "get_C_R_W"
    /\ cur_approx.C # C

(***************************************************************************)
(* Claims about the collaborative filters.                                 *)
(***************************************************************************)
\* the similarity of users u and v (0-based) of the matrix the filter holds
Sim(u, v) == Cosine(matrix[u + 1], matrix[v + 1])
AtLeast(x, y) == ~IsNaN(x) /\ ~IsNaN(y) /\ RatLE(y.n, y.d, x.n, x.d)
EveryUserRated(M) == \A u \in 1 .. NumRows(M) : \E j \in 1 .. NumCols(M) : M[u][j] # 0

\* C5: after get_top_k_users on a matrix of more than k users (each with a
\* rating), row u of top_k_users holds k users other than u, the k most
\* similar to u, in descending order of similarity, and top_k_sim holds
\* their similarities.
C5_TopKOthersDescending ==
    (top_k_users # None /\ EveryUserRated(arg_matrix)) =>
        \A u \in 0 .. NumRows(matrix) - 1 :
            LET users == top_k_users[u + 1]
            IN  /\ Len(users) = k
                /\ Distinct(users)
                /\ \A i \in 1 .. k : users[i] \in 0 .. NumRows(matrix) - 1 /\ users[i] # u
                /\ \A i \in 1 .. k - 1 : AtLeast(Sim(u, users[i]), Sim(u, users[i + 1]))
                /\ \A v \in 0 .. NumRows(matrix) - 1 :
                    (v # u /\ \A i \in 1 .. k : users[i] # v) =>
                        \A i \in 1 .. k : AtLeast(Sim(u, users[i]), Sim(u, v))
                /\ \A i \in 1 .. k : top_k_sim[u + 1][i] = Sim(u, users[i])

\* C6: the residual matrix of CollaborativeWithBaseline (built on a matrix
\* in which every user has a rating) is zero wherever the input matrix is
\* zero, and elsewhere the rating minus the global mean minus the item's
\* deviation (which is the rating minus the item's mean).
C6_ResidualKeepsUnobservedZero ==
    (bool_mat # None /\ EveryUserRated(arg_matrix)) =>
        \A i \in 1 .. NumRows(arg_matrix) : \A j \in 1 .. NumCols(arg_matrix) :
            LET rated == {u \in 1 .. NumRows(arg_matrix) : arg_matrix[u][j] # 0}
                total == Sum([u \in 1 .. NumRows(arg_matrix) |-> arg_matrix[u][j]])
            IN  IF arg_matrix[i][j] = 0
                THEN IsZero(matrix[i][j])
                ELSE FloatEq(matrix[i][j],
                             Num(arg_matrix[i][j] * Cardinality(rated) - total,
                                 Cardinality(rated)))

(***************************************************************************)
(* Claims about the Dataset metrics.                                       *)
(***************************************************************************)
\* the sets of kk items a user rated highest: no item outside is rated
\* higher than one inside
TopSets(M_row, kk) ==
    {T \in SUBSET (1 .. Len(M_row)) :
        /\ Cardinality(T) = kk
        /\ \A j \in T : \A o \in (1 .. Len(M_row)) \ T : M_row[o] <= M_row[j]}

\* the numbers of predictions above 3 among a user's kk highest-rated items
RelevantCounts(M_row, P_row, kk) ==
    {Cardinality({j \in T : P_row[j] > 3}) : T \in TopSets(M_row, kk)}

\* the sums of such numbers over the first n users
RECURSIVE RelevantTotals(_, _, _, _)
RelevantTotals(M, P, kk, n) ==
    IF n = 0 THEN {0}
    ELSE {a + b : a \in RelevantTotals(M, P, kk, n - 1),
                  b \in RelevantCounts(M[n], P[n], kk)}

\* C7: precision_at_top_k(k, P) is the average over the users of (the number
\* of the user's k highest true ratings whose prediction is > 3) / k; it is
\* 1 when P is the true matrix and every user's k highest true ratings are
\* all > 3.
C7_PrecisionIsAverageOverUsers ==
    (metric # None /\ metric.op = "precision_at_top_k") =>
        /\ \E total \in RelevantTotals(matrix_np, predictionMatrix, top_k, NumRows(matrix_np)) :
            FloatEq(metric.value, Num(total, top_k * NumRows(matrix_np)))
        /\ (/\ predictionMatrix = matrix_np
            /\ \A u \in 1 .. NumRows(matrix_np) :
                \A T \in TopSets(matrix_np[u], top_k) : \A j \in T : matrix_np[u][j] > 3)
            => FloatEq(metric.value, Num(1, 1))

\* C7's case: a precision strictly between 0 and 1 where a prediction of
\* exactly 3 sits among a user's top k
C7_Witness ==
    /\ metric # None /\ metric.op = "precision_at_top_k"
    /\ top_k = 2
    /\ metric.value = Num(1, 4)
    /\ predictionMatrix[1][1] = 3

\* C8: RMSE_training(P) reads P only where the true matrix is nonzero, and
\* RMSE_training of the true matrix itself is 0, whatever the matrix.
C8_RMSEOfItselfIsZero ==
    (metric # None /\ metric.op = "RMSE_training") =>
        /\ \E Q \in Matrices(NumRows(matrix_np), NumCols(matrix_np), DsRatings) :
            /\ \A i \in 1 .. NumRows(matrix_np) : \A j \in 1 .. NumCols(matrix_np) :
                matrix_np[i][j] # 0 => Q[i][j] = predictionMatrix[i][j]
            /\ \A i \in 1 .. NumRows(matrix_np) : \A j \in 1 .. NumCols(matrix_np) :
                matrix_np[i][j] = 0 => Q[i][j] = 0
            /\ metric.squared = MeanSquaredError(matrix_np, Q)
        /\ predictionMatrix = matrix_np => IsZero(metric.squared)
====
